---- MODULE Spec2Model ----
(***************************************************************************)
(* Model of powergate's hot-storage pinning layer:                         *)
(*   - pinstore.Store  (the pin ledger: datastore + in-memory cache)       *)
(*   - coreipfs.CoreIpfs (the adapter driving a go-ipfs node and the       *)
(*     pinstore).                                                          *)
(* Every handler is a pure operator from a call state (cache, datastore,   *)
(* node pinset, log of collaborator calls) to the state it leaves behind,  *)
(* and one action applies it.                                              *)
(***************************************************************************)
EXTENDS Integers, Sequences, FiniteSets, TLC

\* ffs.APIID values (tenants) and cid.Cid values used by the model.
Tenants == {"A", "B"}
Cids == {"c1", "c2"}
\* The entries the direct calls on the pinstore work on.
LedgerCids == {"c1"}
\* Byte streams handed to Stage; the node derives the Cid from the bytes.
Streams == {"d1", "d2"}

\* time.Now().Unix() ranges over 0..MaxTime.
MaxTime == 1
\* Most collaborator calls that fail in one behaviour.
MaxFaults == 2

VARIABLES
    cache,   \* Store.cache : map[cid.Cid]PinnedCid, as Cid -> Pins
    ds,      \* Store.ds    : the datastore, as key -> marshalled PinnedCid
    pinned,  \* recursive pins held by the go-ipfs node
    now,     \* the clock read by time.Now().Unix()
    faults,  \* collaborator calls that have failed so far
    threads  \* goroutines inside an adapter call: their position and locals

vars == <<cache, ds, pinned, now, faults, threads>>

----------------------------------------------------------------------------
\* Maps (Go map / datastore) as functions with a finite domain.

MapPut(f, k, v) == [x \in (DOMAIN f) \cup {k} |-> IF x = k THEN v ELSE f[x]]

MapDel(f, k) == [x \in (DOMAIN f) \ {k} |-> f[x]]

Range(s) == {s[i] : i \in 1..Len(s)}

----------------------------------------------------------------------------
\* Call state threaded through a handler.  calls logs every collaborator
\* call (datastore and ipfs node) in order; the failAt-th of them returns an
\* error (0: none does).

Begin(failAt) ==
    [cache |-> cache, ds |-> ds, pinned |-> pinned,
     calls |-> <<>>, failAt |-> failAt, err |-> "nil", ret |-> <<>>]

Fails(st) == Len(st.calls) + 1 = st.failAt

Called(st, call) == [st EXCEPT !.calls = Append(@, call)]

Error(st, msg) == [st EXCEPT !.err = msg, !.ret = <<>>]

\* The state a handler left behind, taken up by the next call.
Then(st) == [st EXCEPT !.calls = <<>>, !.failAt = 0, !.err = "nil", !.ret = <<>>]

----------------------------------------------------------------------------
\* pinstore

makeKey(c) == <<"pins", c>>

\* json.Marshal / json.Unmarshal of a PinnedCid{Cid, Pins []Pin}.
marshal(c, pins) ==
    <<c, [i \in 1..Len(pins) |->
            <<pins[i].APIID, pins[i].Staged, pins[i].CreatedAt>>]>>

unmarshal(buf) ==
    [Cid  |-> buf[1],
     Pins |-> [i \in 1..Len(buf[2]) |->
                 [APIID |-> buf[2][i][1], Staged |-> buf[2][i][2],
                  CreatedAt |-> buf[2][i][3]]]]

\* Index of the first Pin of iid in pins, 0 when there is none
\* (the `for i, p := range r.Pins { if p.APIID == iid` loops).
FirstIdx(pins, iid) ==
    IF \E i \in 1..Len(pins) : pins[i].APIID = iid
    THEN CHOOSE i \in 1..Len(pins) :
            /\ pins[i].APIID = iid
            /\ \A j \in 1..(i-1) : pins[j].APIID # iid
    ELSE 0

\* `r = cr` / `r = PinnedCid{Cid: c}`: the working copy's Pins.
Lookup(st, c) == IF c \in DOMAIN st.cache THEN st.cache[c] ELSE <<>>

\* A write through r.Pins[i] inside the slice's length.  r is a copy of the
\* cached struct, so r.Pins shares its backing array with s.cache[c].Pins:
\* the cached entry sees the write at once, whatever persist does later.
InPlace(st, c, pins) == [st EXCEPT !.cache = MapPut(@, c, pins)]

persist(st, c, pins) ==
    LET s1 == Called(st, <<"ds.Put", c>>) IN
    IF Fails(st)
    THEN Error(s1, "put in datastore")
    ELSE [s1 EXCEPT !.ds = MapPut(@, makeKey(c), marshal(c, pins)),
                    !.cache = MapPut(@, c, pins)]

AddStaged(st, iid, c, t) ==
    LET pins == Lookup(st, c)
        i == FirstIdx(pins, iid)
    IN  IF i # 0
        THEN IF ~pins[i].Staged
             THEN st
             ELSE LET upd == [pins EXCEPT ![i].CreatedAt = t]
                  IN  persist(InPlace(st, c, upd), c, upd)
        ELSE persist(st, c,
                 Append(pins, [APIID |-> iid, Staged |-> TRUE, CreatedAt |-> t]))

\* Add that refreshes CreatedAt of an existing Pin and keeps its Staged flag.
Add_KeepsStaged(st, iid, c, t) ==
    LET pins == Lookup(st, c)
        i == FirstIdx(pins, iid)
        p == [APIID |-> iid, Staged |-> FALSE, CreatedAt |-> t]
    IN  IF i # 0
        THEN LET upd == [pins EXCEPT ![i].CreatedAt = t]
             IN  persist(InPlace(st, c, upd), c, upd)
        ELSE persist(st, c, Append(pins, p))

Add(st, iid, c, t) ==
    LET pins == Lookup(st, c)
        i == FirstIdx(pins, iid)
        p == [APIID |-> iid, Staged |-> FALSE, CreatedAt |-> t]
    IN  IF i # 0
        THEN LET upd == [pins EXCEPT ![i] = p]
             IN  persist(InPlace(st, c, upd), c, upd)
        ELSE persist(st, c, Append(pins, p))

\* RefCount whose second count is that of the Pins that are not staged.
RefCount_CountsStrong(cch, c) ==
    IF c \notin DOMAIN cch
    THEN <<0, 0>>
    ELSE <<Len(cch[c]),
           Cardinality({i \in 1..Len(cch[c]) : ~cch[c][i].Staged})>>

RefCount(cch, c) ==
    IF c \notin DOMAIN cch
    THEN <<0, 0>>
    ELSE <<Len(cch[c]),
           Cardinality({i \in 1..Len(cch[c]) : cch[c][i].Staged})>>

IsPinnedBy(cch, iid, c) ==
    /\ c \in DOMAIN cch
    /\ \E i \in 1..Len(cch[c]) : cch[c][i].APIID = iid

IsPinnedInNode(cch, c) == c \in DOMAIN cch

Remove(st, iid, c) ==
    IF c \notin DOMAIN st.cache
    THEN Error(st, "c1 isn't pinned")
    ELSE LET pins == st.cache[c]
             c1idx == FirstIdx(pins, iid)
             n == Len(pins)
         IN  IF c1idx = 0
             THEN st
             ELSE LET swapped == [pins EXCEPT ![c1idx] = pins[n]]
                  IN  persist(InPlace(st, c, swapped), c,
                              SubSeq(swapped, 1, n - 1))

\* RemoveStaged without its `if !p.Staged` loop.
RemoveStaged_NoStrongCheck(st, c) ==
    IF c \notin DOMAIN st.cache
    THEN Error(st, "c1 isn't pinned")
    ELSE LET pc1 == st.cache[c] IN
         LET s1 == Called(st, <<"ds.Delete", c>>) IN
         IF Fails(st)
         THEN Error(s1, "deleting from datastore")
         ELSE [s1 EXCEPT !.ds = MapDel(@, makeKey(c)),
                         !.cache = MapPut(@, c, pc1)]

RemoveStaged(st, c) ==
    IF c \notin DOMAIN st.cache
    THEN Error(st, "c1 isn't pinned")
    ELSE LET pc1 == st.cache[c] IN
         IF \E i \in 1..Len(pc1) : ~pc1[i].Staged
         THEN Error(st, "all pins should be stage type")
         ELSE LET s1 == Called(st, <<"ds.Delete", c>>) IN
              IF Fails(st)
              THEN Error(s1, "deleting from datastore")
              ELSE [s1 EXCEPT !.ds = MapDel(@, makeKey(c)),
                              !.cache = MapPut(@, c, pc1)]

\* The Cids of the cached entries none of whose Pins is a strong pin.
GetAllOnlyStaged(cch) ==
    {c \in DOMAIN cch : \A i \in 1..Len(cch[c]) : cch[c][i].Staged}

populateCache(store) ==
    LET pcs == {unmarshal(store[k]) : k \in DOMAIN store}
    IN  [c \in {pc.Cid : pc \in pcs} |->
            (CHOOSE pc \in pcs : pc.Cid = c).Pins]

----------------------------------------------------------------------------
\* go-ipfs node, as the adapter uses it.  A call that does not fail leaves the
\* pinset in the state asked for (pinning a pinned Cid and unpinning an
\* unpinned one change nothing).

\* The Cid the node computes for a byte stream.
CidOf(r) == IF r = "d1" THEN "c1" ELSE "c2"

\* ci.ipfs.Unixfs().Add(ctx, r, options.Unixfs.Pin(true))
UnixfsAdd(st, r) ==
    LET s1 == Called(st, <<"Unixfs.Add", CidOf(r)>>) IN
    IF Fails(st) THEN Error(s1, "adding data to ipfs")
    ELSE [s1 EXCEPT !.pinned = @ \cup {CidOf(r)}]

\* ci.ipfs.Pin().Add(ctx, p, options.Pin.Recursive(true))
PinAdd(st, c) ==
    LET s1 == Called(st, <<"Pin.Add", c>>) IN
    IF Fails(st) THEN Error(s1, "pinning cid")
    ELSE [s1 EXCEPT !.pinned = @ \cup {c}]

\* ci.ipfs.Pin().Rm(ctx, p, options.Pin.RmRecursive(true))
PinRm(st, c) ==
    LET s1 == Called(st, <<"Pin.Rm", c>>) IN
    IF Fails(st) THEN Error(s1, "unpinning cid from ipfs node")
    ELSE [s1 EXCEPT !.pinned = @ \ {c}]

\* ci.ipfs.Pin().Update(ctx, p1, p2)
PinUpdate(st, c1, c2) ==
    LET s1 == Called(st, <<"Pin.Update", c1, c2>>) IN
    IF Fails(st) THEN Error(s1, "updating pin")
    ELSE [s1 EXCEPT !.pinned = (@ \ {c1}) \cup {c2}]

\* ci.ipfs.Object().Stat(ctx, p)
ObjectStat(st, c) ==
    LET s1 == Called(st, <<"Object.Stat", c>>) IN
    IF Fails(st) THEN Error(s1, "getting stats of cid") ELSE s1

----------------------------------------------------------------------------
\* coreipfs

Ok(st) == st.err = "nil"

\* Stage without the `if ci.ps.IsPinned(iid, p.Cid())` early return.
Stage_NoPinnedCheck(st, iid, r, t) ==
    LET s1 == UnixfsAdd(st, r)
        c  == CidOf(r)
    IN  IF ~Ok(s1) THEN s1
        ELSE LET s2 == AddStaged(s1, iid, c, t)
             IN  IF ~Ok(s2) THEN s2 ELSE [s2 EXCEPT !.ret = <<c>>]

Stage(st, iid, r, t) ==
    LET s1 == UnixfsAdd(st, r)
        c  == CidOf(r)
    IN  IF ~Ok(s1) THEN s1
        ELSE IF IsPinnedBy(s1.cache, iid, c)
        THEN [s1 EXCEPT !.ret = <<c>>]
        ELSE LET s2 == AddStaged(s1, iid, c, t)
             IN  IF ~Ok(s2) THEN s2 ELSE [s2 EXCEPT !.ret = <<c>>]

Pin(st, iid, c, t) ==
    LET s1 == IF ~IsPinnedInNode(st.cache, c) THEN PinAdd(st, c) ELSE st
    IN  IF ~Ok(s1) THEN s1
        ELSE LET s2 == ObjectStat(s1, c)
             IN  IF ~Ok(s2) THEN s2 ELSE Add(s2, iid, c, t)

unpin(st, iid, c) ==
    LET count == RefCount(st.cache, c)[1] IN
    IF count = 0
    THEN Error(st, "isn't pinned")
    ELSE LET s1 == IF count = 1 THEN PinRm(st, c) ELSE st
         IN  IF ~Ok(s1) THEN s1 ELSE Remove(s1, iid, c)

Unpin(st, iid, c) == unpin(st, iid, c)

\* Replace that pins c2 with Pin().Add where the code moves the pin.
Replace_PinAddForMove(st, iid, c1, c2, t) ==
    LET c1refcount == RefCount(st.cache, c1)[1]
        c2refcount == RefCount(st.cache, c2)[1]
    IN  IF c1refcount = 0
        THEN Error(st, "c1 pin from replace isn't pinned")
        ELSE LET s1 == IF c2refcount = 0 THEN PinAdd(st, c2) ELSE st
             IN  IF ~Ok(s1) THEN s1
                 ELSE LET s2 == ObjectStat(s1, c2)
                      IN  IF ~Ok(s2) THEN s2
                          ELSE LET s3 == Remove(s2, iid, c1)
                               IN  IF ~Ok(s3) THEN s3
                                   ELSE Add(s3, iid, c2, t)

Replace(st, iid, c1, c2, t) ==
    LET c1refcount == RefCount(st.cache, c1)[1]
        c2refcount == RefCount(st.cache, c2)[1]
    IN  IF c1refcount = 0
        THEN Error(st, "c1 pin from replace isn't pinned")
        ELSE LET s1 == IF c1refcount = 1 /\ c2refcount = 0
                       THEN PinUpdate(st, c1, c2)
                       ELSE IF c2refcount = 0 THEN PinAdd(st, c2) ELSE st
             IN  IF ~Ok(s1) THEN s1
                 ELSE LET s2 == ObjectStat(s1, c2)
                      IN  IF ~Ok(s2) THEN s2
                          ELSE LET s3 == Remove(s2, iid, c1)
                               IN  IF ~Ok(s3) THEN s3
                                   ELSE Add(s3, iid, c2, t)

\* getGCCandidates with `sp.CreatedAt >= olderThan.Unix()` as its age test.
getGCCandidates_AgeGe(cch, exclude, olderThan) ==
    {c \in GetAllOnlyStaged(cch) :
        /\ c \notin exclude
        /\ ~ \E i \in 1..Len(cch[c]) : cch[c][i].CreatedAt >= olderThan}

\* The Cids getGCCandidates lists (in the iteration order of the cache map).
getGCCandidates(cch, exclude, olderThan) ==
    {c \in GetAllOnlyStaged(cch) :
        /\ c \notin exclude
        /\ ~ \E i \in 1..Len(cch[c]) : cch[c][i].CreatedAt > olderThan}

\* unpinStaged without its ci.ipfs.Pin().Rm call.
unpinStaged_NoPinRm(st, c) ==
    LET rc == RefCount(st.cache, c) IN
    IF rc[1] # rc[2]
    THEN Error(st, "hasn't only stage-pins")
    ELSE RemoveStaged(st, c)

unpinStaged(st, c) ==
    LET rc == RefCount(st.cache, c) IN
    IF rc[1] # rc[2]
    THEN Error(st, "hasn't only stage-pins")
    ELSE LET s1 == PinRm(st, c)
         IN  IF ~Ok(s1) THEN s1 ELSE RemoveStaged(s1, c)

\* `for _, c := range unpinLst { unpinStaged }`, left at the first error.
unpinLoop(st, unpinLst) ==
    LET after[i \in 0..Len(unpinLst)] ==
            IF i = 0 THEN st
            ELSE IF ~Ok(after[i - 1]) THEN after[i - 1]
            ELSE unpinStaged(after[i - 1], unpinLst[i])
    IN  after[Len(unpinLst)]

\* unpinLst is getGCCandidates' list: its candidates in map iteration order.
GCStaged(st, unpinLst) ==
    LET s1 == unpinLoop(st, unpinLst)
    IN  IF ~Ok(s1) THEN s1 ELSE [s1 EXCEPT !.ret = unpinLst]

\* The orders in which a range over a Go map may list the set S.
Orderings(S) ==
    {s \in [1..Cardinality(S) -> S] : \A c \in S : \E i \in DOMAIN s : s[i] = c}

\* The outcomes of GCStaged(ctx, exclude, olderThan), one per iteration order.
GCStagedRuns(st, exclude, olderThan) ==
    {GCStaged(st, unpinLst) :
        unpinLst \in Orderings(getGCCandidates(st.cache, exclude, olderThan))}

----------------------------------------------------------------------------
\* Actions.

\* The failure asked for happened (a handler that returns before its
\* failAt-th call is the call without a failure), within the budget.
Admitted(st) ==
    st.failAt # 0 => (Len(st.calls) >= st.failAt /\ faults < MaxFaults)

Faulted(st) == IF st.failAt # 0 THEN faults + 1 ELSE faults

\* One goroutine for each tenant's calls and one for the collector.
Threads == Tenants \cup {"gc"}

\* A goroutine that is in no adapter call.
Idle ==
    [op |-> "none", pc |-> "idle", c |-> "", count |-> 0, lst |-> <<>>,
     i |-> 0, seen |-> <<>>, err |-> "nil"]

\* coreipfs.New / pinstore.New over an empty datastore and an empty node.
Init ==
    /\ cache = populateCache(<< >>)
    /\ ds = << >>
    /\ pinned = {}
    /\ now = 0
    /\ faults = 0
    /\ threads = [th \in Threads |-> Idle]

\* The clock advances.
Tick ==
    /\ now < MaxTime
    /\ now' = now + 1
    /\ UNCHANGED <<cache, ds, pinned, faults, threads>>

\* Calls on the adapter, one at a time; failAt picks the collaborator call
\* that fails.
CallStage(iid, r, failAt) ==
    LET st == Stage(Begin(failAt), iid, r, now) IN
    /\ Admitted(st)
    /\ cache' = st.cache /\ ds' = st.ds /\ pinned' = st.pinned
    /\ faults' = Faulted(st)
    /\ UNCHANGED <<now, threads>>

CallPin(iid, c, failAt) ==
    LET st == Pin(Begin(failAt), iid, c, now) IN
    /\ Admitted(st)
    /\ cache' = st.cache /\ ds' = st.ds /\ pinned' = st.pinned
    /\ faults' = Faulted(st)
    /\ UNCHANGED <<now, threads>>

CallUnpin(iid, c, failAt) ==
    LET st == Unpin(Begin(failAt), iid, c) IN
    /\ Admitted(st)
    /\ cache' = st.cache /\ ds' = st.ds /\ pinned' = st.pinned
    /\ faults' = Faulted(st)
    /\ UNCHANGED <<now, threads>>

CallReplace(iid, c1, c2, failAt) ==
    LET st == Replace(Begin(failAt), iid, c1, c2, now) IN
    /\ Admitted(st)
    /\ cache' = st.cache /\ ds' = st.ds /\ pinned' = st.pinned
    /\ faults' = Faulted(st)
    /\ UNCHANGED <<now, threads>>

CallGCStaged(exclude, olderThan, failAt) ==
    \E st \in GCStagedRuns(Begin(failAt), exclude, olderThan) :
        /\ Admitted(st)
        /\ cache' = st.cache /\ ds' = st.ds /\ pinned' = st.pinned
        /\ faults' = Faulted(st)
        /\ UNCHANGED <<now, threads>>

\* coreipfs.New / pinstore.New over the same datastore (a restart).
CallNew ==
    /\ cache' = populateCache(ds)
    /\ UNCHANGED <<ds, pinned, now, faults, threads>>

\* Every collaborator call succeeds.
Next ==
    \/ Tick
    \/ \E iid \in Tenants, r \in Streams : CallStage(iid, r, 0)
    \/ \E iid \in Tenants, c \in Cids : CallPin(iid, c, 0)
    \/ \E iid \in Tenants, c \in Cids : CallUnpin(iid, c, 0)
    \/ \E iid \in Tenants, c1 \in Cids, c2 \in Cids : CallReplace(iid, c1, c2, 0)
    \/ \E exclude \in SUBSET Cids, olderThan \in 0..MaxTime :
          CallGCStaged(exclude, olderThan, 0)
    \/ CallNew

Spec == Init /\ [][Next]_vars

\* Direct calls on the pinstore; the datastore call of each may fail.
CallAddStaged(iid, c, failAt) ==
    LET st == AddStaged(Begin(failAt), iid, c, now) IN
    /\ Admitted(st)
    /\ cache' = st.cache /\ ds' = st.ds /\ pinned' = st.pinned
    /\ faults' = Faulted(st)
    /\ UNCHANGED <<now, threads>>

CallAdd(iid, c, failAt) ==
    LET st == Add(Begin(failAt), iid, c, now) IN
    /\ Admitted(st)
    /\ cache' = st.cache /\ ds' = st.ds /\ pinned' = st.pinned
    /\ faults' = Faulted(st)
    /\ UNCHANGED <<now, threads>>

CallRemove(iid, c, failAt) ==
    LET st == Remove(Begin(failAt), iid, c) IN
    /\ Admitted(st)
    /\ cache' = st.cache /\ ds' = st.ds /\ pinned' = st.pinned
    /\ faults' = Faulted(st)
    /\ UNCHANGED <<now, threads>>

CallRemoveStaged(c, failAt) ==
    LET st == RemoveStaged(Begin(failAt), c) IN
    /\ Admitted(st)
    /\ cache' = st.cache /\ ds' = st.ds /\ pinned' = st.pinned
    /\ faults' = Faulted(st)
    /\ UNCHANGED <<now, threads>>

NextLedger ==
    \/ Tick
    \/ CallNew
    \/ \E iid \in Tenants, c \in LedgerCids, failAt \in 0..1 :
          \/ CallAddStaged(iid, c, failAt)
          \/ CallAdd(iid, c, failAt)
          \/ CallRemove(iid, c, failAt)
          \/ CallRemoveStaged(c, failAt)

SpecLedger == Init /\ [][NextLedger]_vars

\* The most collaborator calls one GCStaged makes: Pin().Rm and ds.Delete for
\* each candidate.
GCCalls == 2 * Cardinality(Cids)

\* Staging and collection through the adapter; any collaborator call of
\* either may fail.
NextGC ==
    \/ Tick
    \/ \E iid \in Tenants, r \in Streams, failAt \in 0..2 :
          CallStage(iid, r, failAt)
    \/ \E exclude \in SUBSET Cids, olderThan \in 0..MaxTime, failAt \in 0..GCCalls :
          CallGCStaged(exclude, olderThan, failAt)

SpecGC == Init /\ [][NextGC]_vars

----------------------------------------------------------------------------
\* Adapter calls step by step.  CoreIpfs never takes its lock, so the calls
\* of different goroutines interleave between any two collaborator calls;
\* each pinstore method runs under Store.lock and is one step.

AllIdle == \A th \in Threads : threads[th].pc = "idle"

Running(th, op, pc) == threads[th].op = op /\ threads[th].pc = pc

\* unpin with its two calls in the other order: Remove, then Pin().Rm.
unpinAfter_RemoveFirst(pc, count) ==
    CASE pc = "RefCount" -> IF count = 0 THEN "done" ELSE "Remove"
      [] pc = "Remove"   -> IF count = 1 THEN "Pin.Rm" ELSE "done"
      [] pc = "Pin.Rm"   -> "done"

\* Where unpin stands after the step pc, having read count.
unpinAfter(pc, count) ==
    CASE pc = "RefCount" -> IF count = 0 THEN "done"
                            ELSE IF count = 1 THEN "Pin.Rm" ELSE "Remove"
      [] pc = "Pin.Rm"   -> "Remove"
      [] pc = "Remove"   -> "done"

StartUnpin(th, c) ==
    /\ threads[th].pc = "idle"
    /\ threads' = [threads EXCEPT ![th] =
                      [Idle EXCEPT !.op = "Unpin", !.pc = "RefCount", !.c = c,
                                   !.seen = Lookup(Begin(0), c)]]
    /\ UNCHANGED <<cache, ds, pinned, now, faults>>

\* count, _ := ci.ps.RefCount(c)
StepUnpinRefCount(th) ==
    LET count == RefCount(cache, threads[th].c)[1] IN
    /\ Running(th, "Unpin", "RefCount")
    /\ threads' = [threads EXCEPT ![th].count = count,
                                  ![th].pc = unpinAfter("RefCount", count),
                                  ![th].err = IF count = 0 THEN "isn't pinned" ELSE "nil"]
    /\ UNCHANGED <<cache, ds, pinned, now, faults>>

\* ci.ipfs.Pin().Rm, which may fail.
StepUnpinPinRm(th, failAt) ==
    LET st == PinRm(Begin(failAt), threads[th].c) IN
    /\ Running(th, "Unpin", "Pin.Rm")
    /\ Admitted(st)
    /\ pinned' = st.pinned
    /\ faults' = Faulted(st)
    /\ threads' = [threads EXCEPT ![th].err = st.err,
                                  ![th].pc = IF Ok(st)
                                             THEN unpinAfter("Pin.Rm", threads[th].count)
                                             ELSE "done"]
    /\ UNCHANGED <<cache, ds, now>>

\* ci.ps.Remove(iid, c)
StepUnpinRemove(th) ==
    LET st == Remove(Begin(0), th, threads[th].c) IN
    /\ Running(th, "Unpin", "Remove")
    /\ cache' = st.cache /\ ds' = st.ds
    /\ threads' = [threads EXCEPT ![th].err = st.err,
                                  ![th].pc = IF Ok(st)
                                             THEN unpinAfter("Remove", threads[th].count)
                                             ELSE "done"]
    /\ UNCHANGED <<pinned, now, faults>>

StartPin(th, c) ==
    /\ threads[th].pc = "idle"
    /\ threads' = [threads EXCEPT ![th] =
                      [Idle EXCEPT !.op = "Pin", !.pc = "IsPinnedInNode", !.c = c,
                                   !.seen = Lookup(Begin(0), c)]]
    /\ UNCHANGED <<cache, ds, pinned, now, faults>>

\* if !ci.ps.IsPinnedInNode(c)
StepPinIsPinnedInNode(th) ==
    /\ Running(th, "Pin", "IsPinnedInNode")
    /\ threads' = [threads EXCEPT ![th].pc =
                      IF ~IsPinnedInNode(cache, threads[th].c)
                      THEN "Pin.Add" ELSE "ps.Add"]
    /\ UNCHANGED <<cache, ds, pinned, now, faults>>

\* ci.ipfs.Pin().Add
StepPinPinAdd(th) ==
    /\ Running(th, "Pin", "Pin.Add")
    /\ pinned' = PinAdd(Begin(0), threads[th].c).pinned
    /\ threads' = [threads EXCEPT ![th].pc = "ps.Add"]
    /\ UNCHANGED <<cache, ds, now, faults>>

\* ci.ipfs.Object().Stat, then ci.ps.Add(iid, c)
StepPinAdd(th) ==
    LET st == Add(ObjectStat(Begin(0), threads[th].c), th, threads[th].c, now) IN
    /\ Running(th, "Pin", "ps.Add")
    /\ cache' = st.cache /\ ds' = st.ds
    /\ threads' = [threads EXCEPT ![th].err = st.err, ![th].pc = "done"]
    /\ UNCHANGED <<pinned, now, faults>>

\* GCStaged(ctx, nil, now) in the collector's goroutine.
StartGCStaged ==
    /\ threads["gc"].pc = "idle"
    /\ threads' = [threads EXCEPT !["gc"] =
                      [Idle EXCEPT !.op = "GCStaged", !.pc = "getGCCandidates"]]
    /\ UNCHANGED <<cache, ds, pinned, now, faults>>

\* unpinLst, err := ci.getGCCandidates(ctx, exclude, olderThan)
StepGCCandidates ==
    /\ Running("gc", "GCStaged", "getGCCandidates")
    /\ \E unpinLst \in Orderings(getGCCandidates(cache, {}, now)) :
          threads' = [threads EXCEPT !["gc"].lst = unpinLst,
                                     !["gc"].seen = SelectSeq(unpinLst,
                                                       LAMBDA c : c \in pinned),
                                     !["gc"].i = 1,
                                     !["gc"].pc = IF unpinLst = <<>> THEN "done"
                                                  ELSE "RefCount"]
    /\ UNCHANGED <<cache, ds, pinned, now, faults>>

\* unpinStaged: count, stagedCount := ci.ps.RefCount(c)
StepGCRefCount ==
    LET t == threads["gc"]
        rc == RefCount(cache, t.lst[t.i])
    IN  /\ Running("gc", "GCStaged", "RefCount")
        /\ threads' = [threads EXCEPT
                          !["gc"].err = IF rc[1] # rc[2] THEN "hasn't only stage-pins"
                                        ELSE "nil",
                          !["gc"].pc  = IF rc[1] # rc[2] THEN "done" ELSE "Pin.Rm"]
        /\ UNCHANGED <<cache, ds, pinned, now, faults>>

\* unpinStaged: ci.ipfs.Pin().Rm
StepGCPinRm ==
    LET t == threads["gc"] IN
    /\ Running("gc", "GCStaged", "Pin.Rm")
    /\ pinned' = PinRm(Begin(0), t.lst[t.i]).pinned
    /\ threads' = [threads EXCEPT !["gc"].pc = "RemoveStaged"]
    /\ UNCHANGED <<cache, ds, now, faults>>

\* unpinStaged: ci.ps.RemoveStaged(c), then the next Cid of unpinLst
StepGCRemoveStaged ==
    LET t == threads["gc"]
        st == RemoveStaged(Begin(0), t.lst[t.i])
    IN  /\ Running("gc", "GCStaged", "RemoveStaged")
        /\ cache' = st.cache /\ ds' = st.ds
        /\ threads' = [threads EXCEPT
                          !["gc"].err = st.err,
                          !["gc"].i   = IF Ok(st) THEN t.i + 1 ELSE t.i,
                          !["gc"].pc  = IF ~Ok(st) \/ t.i = Len(t.lst) THEN "done"
                                        ELSE "RefCount"]
        /\ UNCHANGED <<pinned, now, faults>>

\* Calls one at a time while no goroutine is inside a call, then one call of
\* each goroutine, interleaved step by step.
NextConc ==
    \/ \E iid \in Tenants, c \in LedgerCids :
          \/ AllIdle /\ CallPin(iid, c, 0)
          \/ AllIdle /\ CallUnpin(iid, c, 0)
          \/ StartUnpin(iid, c)
          \/ StartPin(iid, c)
    \/ \E iid \in Tenants, r \in {x \in Streams : CidOf(x) \in LedgerCids} :
          AllIdle /\ CallStage(iid, r, 0)
    \/ \E th \in Tenants :
          \/ StepUnpinRefCount(th)
          \/ \E failAt \in 0..1 : StepUnpinPinRm(th, failAt)
          \/ StepUnpinRemove(th)
          \/ StepPinIsPinnedInNode(th)
          \/ StepPinPinAdd(th)
          \/ StepPinAdd(th)
    \/ StartGCStaged
    \/ StepGCCandidates
    \/ StepGCRefCount
    \/ StepGCPinRm
    \/ StepGCRemoveStaged

SpecConc == Init /\ [][NextConc]_vars

----------------------------------------------------------------------------
\* Properties.

PinsOf(cch, c) == IF c \in DOMAIN cch THEN cch[c] ELSE <<>>

\* Some record on c is a strong (non-staged) pin.
HasDurable(cch, c) == \E i \in 1..Len(PinsOf(cch, c)) : ~PinsOf(cch, c)[i].Staged

\* c has records and every one of them is staged.
OnlyStaged(cch, c) == RefCount(cch, c)[1] > 0 /\ ~HasDurable(cch, c)

\* The records of the tenants other than iid on c.
OthersOn(cch, iid, c) ==
    {PinsOf(cch, c)[i] : i \in {j \in 1..Len(PinsOf(cch, c)) :
                                   PinsOf(cch, c)[j].APIID # iid}}

\* C1: after any sequence of completed Stage, Pin, Unpin, Replace and GCStaged
\* calls without failures, every Cid that has at least one Pin record is
\* pinned in the node.
C1_ReferencedIsPinnedInNode ==
    \A c \in Cids : RefCount(cache, c)[1] > 0 => c \in pinned

\* C2: GCStaged, with any exclusion list and any cutoff, neither returns nor
\* unpins nor edits a Cid that has a strong pin.  From a state where nobody
\* holds X: A pins X and B stages X, then RefCount(X) = (2,1) and no GCStaged
\* returns or unpins X; A then unpins X, then RefCount(X) = (1,1), X is still
\* pinned in the node, and GCStaged(nil, now) returns X and unpins it.
C2_GCGating ==
    /\ \A exclude \in SUBSET Cids, olderThan \in 0..MaxTime :
          \A g \in GCStagedRuns(Begin(0), exclude, olderThan) :
             \A c \in Cids :
                HasDurable(cache, c) =>
                    /\ c \notin Range(g.ret)
                    /\ c \in pinned => c \in g.pinned
                    /\ PinsOf(g.cache, c) = PinsOf(cache, c)
    /\ \A A \in Tenants, B \in Tenants, r \in Streams :
          \A t2 \in now..MaxTime :
             LET X  == CidOf(r)
                 s1 == Pin(Begin(0), A, X, now)
                 s2 == Stage(Then(s1), B, r, t2)
                 s3 == Unpin(Then(s2), A, X)
             IN  (A # B /\ RefCount(cache, X) = <<0, 0>>) =>
                    /\ Ok(s1) /\ Ok(s2) /\ Ok(s3)
                    /\ RefCount(s2.cache, X) = <<2, 1>>
                    /\ \A exclude \in SUBSET Cids, olderThan \in 0..MaxTime :
                          \A g \in GCStagedRuns(Then(s2), exclude, olderThan) :
                             X \notin Range(g.ret) /\ X \in g.pinned
                    /\ RefCount(s3.cache, X) = <<1, 1>>
                    /\ X \in s3.pinned
                    /\ \A g \in GCStagedRuns(Then(s3), {}, t2) :
                          Ok(g) /\ X \in Range(g.ret) /\ X \notin g.pinned

\* A strong pin of one tenant and a staged pin of another on a Cid the node
\* pins, which no GCStaged run collects.
C2_Witness ==
    \E c \in Cids :
       /\ RefCount(cache, c) = <<2, 1>>
       /\ c \in pinned
       /\ \A g \in GCStagedRuns(Begin(0), {}, now) :
             c \notin Range(g.ret) /\ c \in g.pinned

\* C3: after any sequence of completed pinstore calls the cache equals what
\* populateCache rebuilds from the datastore.
C3_CacheEqualsStore == cache = populateCache(ds)

\* C4: a Cid GCStaged has collected is purged from the datastore and from the
\* cache: its RefCount is (0,0), no tenant pins it, and a second
\* GCStaged(nil, now) right after a first one returns an empty list.
C4_CollectedIsPurged ==
    \A exclude \in SUBSET Cids, olderThan \in 0..MaxTime :
       \A g \in GCStagedRuns(Begin(0), exclude, olderThan) :
          Ok(g) =>
             /\ \A c \in Range(g.ret) :
                   /\ makeKey(c) \notin DOMAIN g.ds
                   /\ c \notin DOMAIN g.cache
                   /\ RefCount(g.cache, c) = <<0, 0>>
                   /\ \A iid \in Tenants : ~IsPinnedBy(g.cache, iid, c)
             /\ (exclude = {} /\ olderThan = now) =>
                   \A g2 \in GCStagedRuns(Then(g), {}, now) :
                      Ok(g2) /\ g2.ret = <<>>

\* iid holds a strong pin / a staged pin on c.
Durable(cch, iid, c) ==
    \E i \in 1..Len(PinsOf(cch, c)) :
       PinsOf(cch, c)[i].APIID = iid /\ ~PinsOf(cch, c)[i].Staged

\* What a direct call on the pinstore may leave behind from this state.
LedgerRuns ==
    UNION {{AddStaged(Begin(f), iid, c, now), Add(Begin(f), iid, c, now),
            Remove(Begin(f), iid, c), RemoveStaged(Begin(f), c)} :
           f \in 0..1, iid \in Tenants, c \in LedgerCids}

\* C5: AddStaged by a tenant that holds a strong pin on c succeeds and changes
\* nothing, and no call turns a tenant's strong pin into a staged pin.
C5_DurablePrecedence ==
    /\ \A iid \in Tenants, c \in LedgerCids :
          Durable(cache, iid, c) =>
             LET st == AddStaged(Begin(0), iid, c, now)
             IN  Ok(st) /\ st.cache = cache /\ st.ds = ds
    /\ \A st \in LedgerRuns :
          \A iid \in Tenants, c \in LedgerCids :
             (Durable(cache, iid, c) /\ IsPinnedBy(st.cache, iid, c))
                => Durable(st.cache, iid, c)

\* C6: every entry holds at most one Pin per APIID, and Add(iid, c) leaves
\* exactly one Pin of iid on c, a strong one created now.
C6_OneRecordPerTenant ==
    /\ \A c \in DOMAIN cache :
          \A i \in 1..Len(cache[c]), j \in 1..Len(cache[c]) :
             i # j => cache[c][i].APIID # cache[c][j].APIID
    /\ \A iid \in Tenants, c \in LedgerCids :
          LET st == Add(Begin(0), iid, c, now)
              mine == {i \in 1..Len(PinsOf(st.cache, c)) :
                          PinsOf(st.cache, c)[i].APIID = iid}
          IN  /\ Ok(st)
              /\ Cardinality(mine) = 1
              /\ \A i \in mine :
                    PinsOf(st.cache, c)[i] =
                       [APIID |-> iid, Staged |-> FALSE, CreatedAt |-> now]

\* C7: Add(iid, c) then Remove(iid, c) leaves iid without a Pin on c and the
\* Pins of the other tenants as they were; with no other tenant on c,
\* RefCount(c) = (0,0).
C7_AddThenRemove ==
    \A iid \in Tenants, c \in LedgerCids :
       LET s1 == Add(Begin(0), iid, c, now)
           s2 == Remove(Then(s1), iid, c)
       IN  /\ Ok(s1) /\ Ok(s2)
           /\ ~IsPinnedBy(s2.cache, iid, c)
           /\ OthersOn(s2.cache, iid, c) = OthersOn(s1.cache, iid, c)
           /\ RefCount(s2.cache, c)[1] = RefCount(s1.cache, c)[1] - 1
           /\ OthersOn(s1.cache, iid, c) = {} => RefCount(s2.cache, c) = <<0, 0>>

\* C8: Stage by a tenant that already holds a Pin (staged or strong) on the
\* Cid of the bytes returns that Cid and leaves cache and datastore as they
\* were; staging the same bytes twice returns the same Cid and the second
\* call changes neither.
C8_StageIdempotent ==
    \A iid \in Tenants, r \in Streams :
       /\ IsPinnedBy(cache, iid, CidOf(r)) =>
             LET st == Stage(Begin(0), iid, r, now)
             IN  /\ Ok(st) /\ st.ret = <<CidOf(r)>>
                 /\ st.cache = cache /\ st.ds = ds
       /\ \A t2 \in now..MaxTime :
             LET s1 == Stage(Begin(0), iid, r, now)
                 s2 == Stage(Then(s1), iid, r, t2)
             IN  /\ Ok(s1) /\ Ok(s2) /\ s2.ret = s1.ret
                 /\ s2.cache = s1.cache /\ s2.ds = s1.ds
                 /\ RefCount(s2.cache, CidOf(r)) = RefCount(s1.cache, CidOf(r))

\* A tenant holds a staged pin older than the clock on a Cid whose bytes it
\* can stage again.
C8_Witness ==
    \E iid \in Tenants, r \in Streams :
       /\ CidOf(r) \in DOMAIN cache /\ CidOf(r) \in pinned
       /\ \E i \in 1..Len(cache[CidOf(r)]) :
             cache[CidOf(r)][i] = [APIID |-> iid, Staged |-> TRUE, CreatedAt |-> 0]
       /\ now > 0
       /\ Stage(Begin(0), iid, r, now).ret = <<CidOf(r)>>

\* Every Pin on c was created at time t.
AllCreatedAt(cch, c, t) ==
    \A i \in 1..Len(PinsOf(cch, c)) : PinsOf(cch, c)[i].CreatedAt = t

\* C9: GCStaged neither returns nor unpins nor edits a Cid of its exclusion
\* list.  With only-staged c1 and c2 created at the same time,
\* GCStaged({c1}, now) returns exactly c2 and unpins it, and a GCStaged(nil,
\* now) right after it returns exactly c1 and unpins it.
C9_GCExclusion ==
    /\ \A exclude \in SUBSET Cids, olderThan \in 0..MaxTime :
          \A g \in GCStagedRuns(Begin(0), exclude, olderThan) :
             \A c \in exclude :
                /\ c \notin Range(g.ret)
                /\ c \in pinned => c \in g.pinned
                /\ PinsOf(g.cache, c) = PinsOf(cache, c)
    /\ \A c1 \in Cids, c2 \in Cids, t \in 0..now :
          (/\ c1 # c2
           /\ OnlyStaged(cache, c1) /\ OnlyStaged(cache, c2)
           /\ AllCreatedAt(cache, c1, t) /\ AllCreatedAt(cache, c2, t)
           /\ {c1, c2} \subseteq pinned)
          => \A g \in GCStagedRuns(Begin(0), {c1}, now) :
                /\ Ok(g) /\ Range(g.ret) = {c2} /\ Len(g.ret) = 1
                /\ c2 \notin g.pinned /\ c1 \in g.pinned
                /\ \A g2 \in GCStagedRuns(Then(g), {}, now) :
                      /\ Ok(g2) /\ Range(g2.ret) = {c1} /\ Len(g2.ret) = 1
                      /\ c1 \notin g2.pinned

\* C10: GCStaged(exclude, olderThan) leaves alone every entry one of whose
\* Pins has CreatedAt > olderThan, and returns and unpins every entry outside
\* exclude all of whose Pins are staged with CreatedAt <= olderThan.  A Cid
\* a tenant stages now, creating its Pin on it, is not collected with a cutoff
\* before now and is collected with a cutoff at or after now.
C10_GCAgeFilter ==
    /\ \A exclude \in SUBSET Cids, olderThan \in 0..MaxTime :
          \A g \in GCStagedRuns(Begin(0), exclude, olderThan) :
             /\ Ok(g)
             /\ \A c \in DOMAIN cache :
                   /\ (\E i \in 1..Len(cache[c]) : cache[c][i].CreatedAt > olderThan)
                      => /\ c \notin Range(g.ret)
                         /\ c \in pinned => c \in g.pinned
                         /\ PinsOf(g.cache, c) = cache[c]
                   /\ (/\ c \notin exclude
                       /\ \A i \in 1..Len(cache[c]) :
                             cache[c][i].Staged /\ cache[c][i].CreatedAt <= olderThan)
                      => c \in Range(g.ret) /\ c \notin g.pinned
    /\ \A iid \in Tenants, r \in Streams :
          (~IsPinnedBy(cache, iid, CidOf(r)) /\ ~HasDurable(cache, CidOf(r))) =>
             LET st == Stage(Begin(0), iid, r, now)
             IN  /\ Ok(st)
                 /\ \A olderThan \in 0..MaxTime :
                       \A g \in GCStagedRuns(Then(st), {}, olderThan) :
                          IF olderThan < now
                          THEN CidOf(r) \notin Range(g.ret) /\ CidOf(r) \in g.pinned
                          ELSE CidOf(r) \in Range(g.ret) /\ CidOf(r) \notin g.pinned

\* Two tenants staged a Cid at different times: a cutoff between the two
\* protects the entry, a cutoff at the later one collects it.
C10_Witness ==
    \E c \in Cids :
       /\ RefCount(cache, c) = <<2, 2>>
       /\ c \in pinned
       /\ \E i \in 1..2 : cache[c][i].CreatedAt = 0
       /\ \E i \in 1..2 : cache[c][i].CreatedAt = 1
       /\ c \notin getGCCandidates(cache, {}, 0)
       /\ \A g \in GCStagedRuns(Begin(0), {}, 1) :
             c \in Range(g.ret) /\ c \notin g.pinned

\* The calls a handler made on the node's pinset, in order.
NodePinCalls(st) ==
    SelectSeq(st.calls,
              LAMBDA call : call[1] \in {"Unixfs.Add", "Pin.Add", "Pin.Rm", "Pin.Update"})

\* C11: Replace(A, c1, c2) with A the only holder of c1 and nobody holding c2
\* makes exactly one call on the node's pinset, Pin().Update(c1, c2); after
\* it A holds no Pin on c1 and a strong Pin on c2, c2 is pinned in the node
\* and c1 is not.
C11_ReplaceMovesPin ==
    \A A \in Tenants, c1 \in Cids, c2 \in Cids :
       (/\ Len(PinsOf(cache, c1)) = 1
        /\ PinsOf(cache, c1)[1].APIID = A
        /\ RefCount(cache, c2)[1] = 0)
       => LET st == Replace(Begin(0), A, c1, c2, now)
          IN  /\ Ok(st)
              /\ NodePinCalls(st) = << <<"Pin.Update", c1, c2>> >>
              /\ ~IsPinnedBy(st.cache, A, c1)
              /\ Durable(st.cache, A, c2)
              /\ RefCount(st.cache, c2) = <<1, 0>>
              /\ c2 \in st.pinned /\ c1 \notin st.pinned

\* A is the only holder of a Cid pinned in the node, another Cid is neither
\* held nor pinned, and Replace moves the pin.
C11_Witness ==
    \E A \in Tenants, c1 \in Cids, c2 \in Cids :
       /\ Len(PinsOf(cache, c1)) = 1
       /\ PinsOf(cache, c1)[1].APIID = A
       /\ RefCount(cache, c2)[1] = 0
       /\ c1 \in pinned /\ c2 \notin pinned
       /\ Replace(Begin(0), A, c1, c2, now).pinned = (pinned \ {c1}) \cup {c2}

\* C12: from a state where nobody holds c: after Stage by a tenant c is
\* pinned in the node, is a GC candidate and the tenant holds a Pin on it;
\* after Pin by the same tenant RefCount(c) = (1,0), c is still pinned in the
\* node and no GCStaged with any cutoff lists or returns it; after Unpin c is
\* not pinned in the node and the tenant holds no Pin on it.
C12_StagePinUnpin ==
    \A iid \in Tenants, r \in Streams :
       \A t2 \in now..MaxTime :
          LET c  == CidOf(r)
              s1 == Stage(Begin(0), iid, r, now)
              s2 == Pin(Then(s1), iid, c, t2)
              s3 == Unpin(Then(s2), iid, c)
          IN  RefCount(cache, c)[1] = 0 =>
                 /\ Ok(s1) /\ s1.ret = <<c>>
                 /\ c \in s1.pinned
                 /\ \A olderThan \in now..MaxTime :
                       c \in getGCCandidates(s1.cache, {}, olderThan)
                 /\ IsPinnedBy(s1.cache, iid, c)
                 /\ Ok(s2)
                 /\ RefCount(s2.cache, c) = <<1, 0>>
                 /\ Durable(s2.cache, iid, c)
                 /\ c \in s2.pinned
                 /\ \A olderThan \in 0..MaxTime :
                       /\ c \notin getGCCandidates(s2.cache, {}, olderThan)
                       /\ \A g \in GCStagedRuns(Then(s2), {}, olderThan) :
                             c \notin Range(g.ret) /\ c \in g.pinned
                 /\ Ok(s3)
                 /\ c \notin s3.pinned
                 /\ ~IsPinnedBy(s3.cache, iid, c)

\* A tenant is the only holder of a Cid, through a staged Pin made before
\* now, and its Pin call turns that Pin into a strong one.
C12_Witness ==
    \E iid \in Tenants, c \in Cids :
       /\ PinsOf(cache, c) = <<[APIID |-> iid, Staged |-> TRUE, CreatedAt |-> 0]>>
       /\ c \in pinned
       /\ now > 0
       /\ c \in getGCCandidates(cache, {}, now)
       /\ PinsOf(Pin(Begin(0), iid, c, now).cache, c) =
             <<[APIID |-> iid, Staged |-> FALSE, CreatedAt |-> now]>>

\* The Cids a GCStaged run took out of the node's pinset and out of the
\* datastore.
Reclaimed(g) ==
    {c \in Cids : /\ c \in pinned /\ c \notin g.pinned
                  /\ makeKey(c) \in DOMAIN ds /\ makeKey(c) \notin DOMAIN g.ds}

\* C13: a GCStaged run in which a collaborator call fails returns, with the
\* error, the list of exactly the Cids it had unpinned and purged before the
\* failure.
C13_GCPartialFailure ==
    \A exclude \in SUBSET Cids, olderThan \in 0..MaxTime, failAt \in 1..GCCalls :
       \A g \in GCStagedRuns(Begin(failAt), exclude, olderThan) :
          ~Ok(g) => Range(g.ret) = Reclaimed(g)

\* C14: with no Pin on c, Remove(iid, c) and unpin(iid, c) return an error
\* and change nothing; with Pins of other tenants only, Remove(iid, c)
\* returns nil and changes nothing.
C14_NotFoundOrNoOp ==
    \A iid \in Tenants, c \in LedgerCids :
       LET rm == Remove(Begin(0), iid, c)
           un == unpin(Begin(0), iid, c)
       IN  /\ RefCount(cache, c)[1] = 0 =>
                 /\ ~Ok(rm) /\ rm.cache = cache /\ rm.ds = ds /\ rm.pinned = pinned
                 /\ ~Ok(un) /\ un.cache = cache /\ un.ds = ds /\ un.pinned = pinned
           /\ (RefCount(cache, c)[1] > 0 /\ ~IsPinnedBy(cache, iid, c)) =>
                 /\ Ok(rm) /\ rm.cache = cache /\ rm.ds = ds /\ rm.pinned = pinned

\* C15: a Cid without any Pin is not pinned in the node, and Replace(t, c1,
\* c2) by the only holder of c1 leaves c1 not pinned in the node, whoever
\* holds c2.
C15_NoLeak ==
    /\ \A c \in Cids : RefCount(cache, c)[1] = 0 => c \notin pinned
    /\ \A iid \in Tenants, c1 \in Cids, c2 \in Cids :
          (/\ c1 # c2
           /\ Len(PinsOf(cache, c1)) = 1
           /\ PinsOf(cache, c1)[1].APIID = iid)
          => LET st == Replace(Begin(0), iid, c1, c2, now)
             IN  Ok(st) /\ c1 \notin st.pinned

\* C16: RefCount(c) is (number of Pins on c, number of staged Pins on c), so
\* total >= staged >= 0, and it is (0,0) for a Cid without entry.
C16_RefCountCounts ==
    \A c \in Cids :
       LET rc == RefCount(cache, c)
           pins == PinsOf(cache, c)
       IN  /\ rc[1] >= rc[2] /\ rc[2] >= 0
           /\ rc[1] = Len(pins)
           /\ rc[2] = Len(SelectSeq(pins, LAMBDA pin : pin.Staged))
           /\ c \notin DOMAIN cache => rc = <<0, 0>>

\* An entry holds a staged Pin and a strong Pin.
C16_Witness ==
    \E c \in Cids :
       /\ Len(PinsOf(cache, c)) = 2
       /\ \E i \in 1..2 : cache[c][i].Staged
       /\ \E i \in 1..2 : ~cache[c][i].Staged
       /\ RefCount(cache, c) = <<2, 1>>

\* C17: a successful Pin(iid, c) calls Pin().Add exactly when c has no Pin at
\* the time of the call, and leaves c pinned in the node with a strong Pin of
\* iid.
C17_PinPinsInNode ==
    \A iid \in Tenants, c \in Cids :
       LET st == Pin(Begin(0), iid, c, now)
       IN  Ok(st) =>
              /\ (<<"Pin.Add", c>> \in Range(st.calls)) <=> (RefCount(cache, c)[1] = 0)
              /\ c \in st.pinned
              /\ Durable(st.cache, iid, c)

\* C18: Unpin(iid, c) calls Pin().Rm only when the one Pin on c is iid's;
\* when another tenant holds a Pin on c it makes no call on the node's pinset
\* and leaves the Pins of the other tenants as they were.
C18_UnpinNodeCall ==
    \A iid \in Tenants, c \in Cids :
       LET st == Unpin(Begin(0), iid, c)
       IN  /\ (<<"Pin.Rm", c>> \in Range(st.calls)) =>
                 (Len(PinsOf(cache, c)) = 1 /\ PinsOf(cache, c)[1].APIID = iid)
           /\ OthersOn(cache, iid, c) # {} =>
                 /\ NodePinCalls(st) = <<>>
                 /\ st.pinned = pinned
                 /\ OthersOn(st.cache, iid, c) = OthersOn(cache, iid, c)

\* C19: IsPinnedInNode(c) is true exactly when c has at least one Pin; no
\* entry of the ledger has an empty Pins.
C19_PinnedInNodeIffPins ==
    \A c \in Cids : IsPinnedInNode(cache, c) <=> RefCount(cache, c)[1] > 0

\* C20: getGCCandidates(exclude, olderThan) lists exactly the Cids outside
\* exclude with total == staged > 0 all of whose Pins have CreatedAt <=
\* olderThan, and GCStaged never returns a Cid without Pins.
C20_CandidateSet ==
    \A exclude \in SUBSET Cids, olderThan \in 0..MaxTime :
       /\ getGCCandidates(cache, exclude, olderThan) =
             {c \in Cids : /\ RefCount(cache, c)[1] = RefCount(cache, c)[2]
                           /\ RefCount(cache, c)[1] > 0
                           /\ c \notin exclude
                           /\ \A i \in 1..Len(PinsOf(cache, c)) :
                                 PinsOf(cache, c)[i].CreatedAt <= olderThan}
       /\ \A g \in GCStagedRuns(Begin(0), exclude, olderThan) :
             \A c \in Range(g.ret) : RefCount(cache, c)[1] > 0

\* What Add, AddStaged and Remove leave behind from this state when their
\* ds.Put fails.
FailedPutRuns ==
    UNION {{AddStaged(Begin(1), iid, c, now), Add(Begin(1), iid, c, now),
            Remove(Begin(1), iid, c)} : iid \in Tenants, c \in LedgerCids}

\* C21: when the ds.Put of Add, AddStaged or Remove fails, the call returns
\* the error and leaves the cache (and the datastore) exactly as they were.
C21_FailedPutKeepsCache ==
    \A st \in FailedPutRuns :
       st.err = "put in datastore" => (st.cache = cache /\ st.ds = ds)


\* The goroutine th has finished op on c without an error.
Finished(th, op, c) ==
    /\ threads[th].op = op /\ threads[th].pc = "done"
    /\ threads[th].c = c /\ threads[th].err = "nil"

\* C22: a collection that listed c while c was pinned in the node with only
\* staged Pins, interleaved in any way with Pin(tenant, c) calls and nothing
\* else, never ends with a strong Pin on c while c is unpinned in the node.
C22_GCWithConcurrentPin ==
    \A c \in LedgerCids :
       (/\ Running("gc", "GCStaged", "done")
        /\ c \in Range(threads["gc"].seen)
        /\ \E th \in Tenants : Finished(th, "Pin", c)
        /\ \A th \in Tenants : AllIdle \/ threads[th].pc = "idle"
                                       \/ Finished(th, "Pin", c))
       => ~(HasDurable(cache, c) /\ c \notin pinned)

\* C23: A and B are the two holders of c and each of them unpins c; however
\* the steps of the two calls interleave, when both have returned the
\* reference count of c is (0, 0) and c is unpinned in the node.
C23_ConcurrentUnpins ==
    \A c \in LedgerCids :
       (/\ threads["gc"].pc = "idle"
        /\ \A th \in Tenants :
              /\ Finished(th, "Unpin", c)
              /\ Len(threads[th].seen) = 2
              /\ {threads[th].seen[i].APIID : i \in 1..2} = Tenants)
       => (RefCount(cache, c) = <<0, 0>> /\ c \notin pinned)

\* C24: Replace calls Pin().Update(c1, c2) only when the single Pin on c1 is
\* the caller's, and it takes no node pin away from a c1 whose only holder is
\* another tenant.
C24_ReplaceMoveHolder ==
    \A iid \in Tenants, c1 \in Cids : \A c2 \in Cids \ {c1} :
       LET st == Replace(Begin(0), iid, c1, c2, now) IN
       /\ <<"Pin.Update", c1, c2>> \in Range(st.calls)
             => (Len(PinsOf(cache, c1)) = 1 /\ PinsOf(cache, c1)[1].APIID = iid)
       /\ (/\ Len(PinsOf(cache, c1)) = 1
           /\ PinsOf(cache, c1)[1].APIID # iid
           /\ c1 \in pinned)
             => c1 \in st.pinned

\* C25: RemoveStaged(c) fails with "all pins should be stage type" when some
\* Pin on c is strong, and fails when c has no entry; in both cases the cache
\* and the datastore stay as they were.
C25_RemoveStagedRefuses ==
    \A c \in Cids :
       LET st == RemoveStaged(Begin(0), c) IN
       /\ HasDurable(cache, c)
             => /\ st.err = "all pins should be stage type"
                /\ st.cache = cache /\ st.ds = ds
       /\ c \notin DOMAIN cache
             => /\ ~Ok(st)
                /\ st.cache = cache /\ st.ds = ds

\* Some Cid has a strong Pin and RemoveStaged refuses it, and some Cid has no
\* entry and RemoveStaged refuses it.
C25_Witness ==
    /\ \E c \in Cids :
          /\ HasDurable(cache, c)
          /\ RemoveStaged(Begin(0), c).err = "all pins should be stage type"
    /\ \E c \in Cids :
          /\ c \notin DOMAIN cache
          /\ RemoveStaged(Begin(0), c).err = "c1 isn't pinned"

\* No goroutine but th is inside a call or has run one.
Alone(th) == \A o \in Threads \ {th} : threads[o].pc = "idle"

\* c is pinned in the node while the ledger (the cache, and the cache a
\* restart would load from the datastore) has no Pin on it.
PinnedWithoutRecord(c) ==
    /\ c \in pinned
    /\ \/ RefCount(cache, c)[1] = 0
       \/ RefCount(populateCache(ds), c)[1] = 0

\* At every point of an unpin that found a reference, c is not pinned in
\* the node without a record.
UnpinNeverDangles ==
    \A th \in Tenants :
       (threads[th].op = "Unpin" /\ threads[th].count >= 1 /\ Alone(th))
          => ~PinnedWithoutRecord(threads[th].c)

\* A step of unpin: the remove of the last reference starts with c already
\* unpinned in the node, and a failed Pin().Rm ends the call with the
\* ledger untouched.
UnpinStepOrder ==
    \A th \in Tenants :
       /\ (Running(th, "Unpin", "Remove") /\ threads[th].count = 1 /\ Alone(th)
           /\ threads'[th].pc # "Remove")
             => threads[th].c \notin pinned
       /\ (Running(th, "Unpin", "Pin.Rm") /\ threads'[th].err # "nil")
             => /\ threads'[th].pc = "done"
                /\ cache' = cache /\ ds' = ds

\* C26: unpin of the last reference unpins c in the node before it removes
\* the ledger record; at no point of the call, a failed Pin().Rm included,
\* is c pinned in the node with no record; and when Pin().Rm fails the
\* record is not removed.
C26_UnpinOrder == []UnpinNeverDangles /\ [][UnpinStepOrder]_vars

\* An unpin that found one reference has returned, alone, with c unpinned in
\* the node and its record removed.
C26_Witness ==
    \E th \in Tenants :
       /\ threads[th].op = "Unpin" /\ threads[th].pc = "done"
       /\ threads[th].count = 1 /\ Alone(th)
       /\ threads[th].err = "nil"
       /\ threads[th].c \notin pinned
       /\ RefCount(cache, threads[th].c)[1] = 0

\* C27: AddStaged(iid, c) at time now, when iid holds a staged Pin on c, sets
\* the CreatedAt of that Pin to now and changes nothing else; when iid holds
\* no Pin on c it appends one staged Pin created at now; both are persisted.
C27_AddStagedRecord ==
    \A iid \in Tenants, c \in LedgerCids :
       LET st == AddStaged(Begin(0), iid, c, now)
           old == PinsOf(cache, c)
           new == PinsOf(st.cache, c)
       IN  /\ (\E i \in 1..Len(old) : old[i].APIID = iid /\ old[i].Staged)
                 => /\ Len(new) = Len(old)
                    /\ \A i \in 1..Len(old) :
                          new[i] = IF old[i].APIID = iid /\ old[i].Staged
                                   THEN [old[i] EXCEPT !.CreatedAt = now]
                                   ELSE old[i]
                    /\ st.ds[makeKey(c)] = marshal(c, new)
           /\ (~ \E i \in 1..Len(old) : old[i].APIID = iid)
                 => /\ new = Append(old, [APIID |-> iid, Staged |-> TRUE,
                                          CreatedAt |-> now])
                    /\ st.ds[makeKey(c)] = marshal(c, new)

====
